---- MODULE Spec2Model ----
(***************************************************************************)
(* Model of ublox_gps/src/ublox_firmware6.cpp: the u-blox firmware 6       *)
(* adapter (UbloxFirmware6).  Parameter resolution, device configuration,  *)
(* subscription wiring, the three telemetry handlers and the fix           *)
(* diagnostic.                                                             *)
(*                                                                         *)
(* Real-valued quantities (degrees, metres, variances) are exact rationals *)
(* [num, den] in lowest terms, so that a unit conversion is a division and *)
(* not the identity.                                                       *)
(***************************************************************************)
EXTENDS Integers, Sequences, FiniteSets, TLC

(***************************************************************************)
(* Bounds of the model.                                                    *)
(***************************************************************************)
MaxEpoch == 1       \* epoch tokens (i_tow) range over 0..MaxEpoch
MaxTime == 2        \* ros::Time::now() ranges over 1..MaxTime
MaxSamples == 3     \* samples delivered to the handlers in one run
MaxStatRuns == 2    \* runs of fixDiagnostic on one status wrapper

(***************************************************************************)
(* Message constants used by the source.                                   *)
(***************************************************************************)
GPS_NO_FIX == 0
GPS_DEAD_RECKONING_ONLY == 1
GPS_2D_FIX == 2
GPS_3D_FIX == 3
GPS_GPS_DEAD_RECKONING_COMBINED == 4
GPS_TIME_ONLY_FIX == 5
FLAGS_GPS_FIX_OK == 1

STATUS_NO_FIX == 0 - 1
STATUS_FIX == 0
SERVICE_GPS == 1
COVARIANCE_TYPE_DIAGONAL_KNOWN == 2

OK == 0
WARN == 1
ERROR == 2

FLAGS_COMPAT == 1
FLAGS_CONSIDER == 2
FILTER_POS == 1
FILTER_MSK_POS == 2
FILTER_TIME == 4
FILTER_DATE == 8
FILTER_SBAS_FILT == 16
FILTER_TRACK == 32

\* the frame_id handed to the constructor
FrameId == "gps"

\* ros::Time() : the value of a header stamp nobody has assigned
UnsetStamp == 0

(***************************************************************************)
(* Exact rationals.                                                        *)
(***************************************************************************)
Abs(n) == IF n < 0 THEN 0 - n ELSE n

RECURSIVE GCD(_, _)
GCD(a, b) == IF b = 0 THEN a ELSE GCD(b, a % b)

\* n / d for an integer n and a positive integer d
Rat(n, d) ==
    LET g == GCD(Abs(n), d)
    IN  [num |-> n \div g, den |-> d \div g]

RatOfInt(n) == [num |-> n, den |-> 1]

\* pow(r, 2)
RatSq(r) == [num |-> r.num * r.num, den |-> r.den * r.den]

RatZero == RatOfInt(0)

\* bitwise and / or of two naturals
RECURSIVE BitAnd(_, _)
BitAnd(a, b) ==
    IF a = 0 \/ b = 0 THEN 0
    ELSE (a % 2) * (b % 2) + 2 * BitAnd(a \div 2, b \div 2)

RECURSIVE BitOr(_, _)
BitOr(a, b) ==
    IF a = 0 THEN b
    ELSE IF b = 0 THEN a
    ELSE (IF a % 2 = 1 \/ b % 2 = 1 THEN 1 ELSE 0)
         + 2 * BitOr(a \div 2, b \div 2)

(***************************************************************************)
(* The parameter source (node_) and the helpers of utils.hpp.              *)
(***************************************************************************)
BoolKeys ==
    { "nmea/set", "nmea/compat", "nmea/consider",
      "nmea/filter/pos", "nmea/filter/msk_pos", "nmea/filter/time",
      "nmea/filter/date", "nmea/filter/sbas", "nmea/filter/track",
      "publish/nav/posllh", "publish/nav/velned", "publish/nav/sol",
      "publish/nav/svinfo", "publish/mon/hw" }

UintKeys == { "nmea/version", "nmea/num_sv" }

\* a boolean key is absent, true or false; an unsigned key is absent or a value
BoolValues == { "absent", "true", "false" }
NoValue == 0 - 1

VARIABLES
    node_,                \* the parameter source: [bools, uints]
    phase,                \* how far the adapter's set-up has come
    thrown,               \* the exception that ended the set-up, "" when none
    cfg_nmea_,            \* CfgNMEA6 settings: [version, num_sv, flags, filter]
    fix_status_service_,  \* service type used in fix status messages
    rosLog,               \* advisories written with ROS_WARN
    deviceCalls,          \* configuration requests sent to the device (gps)
    subscriptions,        \* [kind, rate] of every handler registered with gps
    last_nav_pos_,        \* latest NavPOSLLH
    last_nav_vel_,        \* latest NavVELNED
    last_nav_sol_,        \* latest NavSOL
    fix_,                 \* retained sensor_msgs::NavSatFix
    velocity_,            \* retained TwistWithCovarianceStamped
    now,                  \* ros::Time::now()
    pubs,                 \* per topic: the messages published by the latest handler run
    freq_diag_,           \* stamps ticked into the fix frequency diagnostic
    stat,                 \* the DiagnosticStatusWrapper fixDiagnostic is run on
    statRuns,             \* runs of fixDiagnostic on that wrapper
    fixLog,               \* history: [i_tow, stamp, fresh] of the fixes published
    velLog,               \* history: [i_tow, stamp, fresh] of the velocities published
    delivered,            \* per kind: number of samples handed to the handlers
    pc,                   \* concurrent runs: where each handler and the diagnostic is
    idx,                  \* concurrent runs: fields copied or read so far
    cur,                  \* concurrent runs: the sample each handler was handed
    rd,                   \* concurrent runs: what the diagnostic has read
    whole,                \* concurrent runs: the samples delivered so far, whole
    match,                \* concurrent runs: outcome of each handler's epoch comparison
    stampFor              \* concurrent runs: epoch of the sample each retained stamp was written for

configVars ==
    << node_, phase, thrown, cfg_nmea_, fix_status_service_, rosLog, deviceCalls,
       subscriptions >>

telemetryVars ==
    << last_nav_pos_, last_nav_vel_, last_nav_sol_, fix_, velocity_, now, pubs,
       freq_diag_, fixLog, velLog, delivered >>

diagVars == << stat, statRuns >>

concVars == << pc, idx, cur, rd, whole, match, stampFor >>

vars == << configVars, telemetryVars, diagVars, concVars >>

\* getRosBoolean(node_, key): the value of the key, false when it is absent
getRosBoolean(key) == node_.bools[key] = "true"

\* getRosUint(node_, key, out): whether the key is present
getRosUint(key) == node_.uints[key] # NoValue

(***************************************************************************)
(* Telemetry samples.                                                      *)
(***************************************************************************)
\* gps_fix: the six fix types and a reserved value
FixTypes ==
    { GPS_NO_FIX, GPS_DEAD_RECKONING_ONLY, GPS_2D_FIX, GPS_3D_FIX,
      GPS_GPS_DEAD_RECKONING_COMBINED, GPS_TIME_ONLY_FIX, 6 }

\* NavSOL flags: none, gpsFixOk, diffSoln only
SolFlags == { 0, FLAGS_GPS_FIX_OK, 2 }

Epochs == 0 .. MaxEpoch

PosPayloads ==
    { [lat |-> 473977000, lon |-> 0 - 1223301000, height |-> 12345,
       h_msl |-> 30000, h_acc |-> 500, v_acc |-> 1500],
      [lat |-> 0 - 338688000, lon |-> 1512093000, height |-> 0 - 2000,
       h_msl |-> 0, h_acc |-> 3000, v_acc |-> 0] }

PosSamples ==
    { [i_tow |-> e, lat |-> p.lat, lon |-> p.lon, height |-> p.height,
       h_msl |-> p.h_msl, h_acc |-> p.h_acc, v_acc |-> p.v_acc] :
      e \in Epochs, p \in PosPayloads }

VelPayloads ==
    { [vel_n |-> 150, vel_e |-> 0 - 20, vel_d |-> 30, s_acc |-> 50],
      [vel_n |-> 0, vel_e |-> 0, vel_d |-> 0 - 100, s_acc |-> 200] }

VelSamples ==
    { [i_tow |-> e, vel_n |-> p.vel_n, vel_e |-> p.vel_e, vel_d |-> p.vel_d,
       s_acc |-> p.s_acc] : e \in Epochs, p \in VelPayloads }

SolSamples ==
    [gps_fix : FixTypes, flags : SolFlags, num_sv : {7}]

\* the solution-quality samples whose flags are gpsFixOk alone
FixOkSolSamples == { m \in SolSamples : m.flags = FLAGS_GPS_FIX_OK }

\* value-initialised messages, as the members are before any sample arrives
DefaultNavPosLlh ==
    [i_tow |-> 0, lat |-> 0, lon |-> 0, height |-> 0, h_msl |-> 0,
     h_acc |-> 0, v_acc |-> 0]

DefaultNavVelNed ==
    [i_tow |-> 0, vel_n |-> 0, vel_e |-> 0, vel_d |-> 0, s_acc |-> 0]

DefaultNavSol == [gps_fix |-> 0, flags |-> 0, num_sv |-> 0]

DefaultFix ==
    [stamp |-> UnsetStamp, frame_id |-> "",
     latitude |-> RatZero, longitude |-> RatZero, altitude |-> RatZero,
     status |-> 0, service |-> 0,
     position_covariance |-> [i \in 0 .. 8 |-> RatZero],
     position_covariance_type |-> 0]

DefaultVelocity ==
    [stamp |-> UnsetStamp, frame_id |-> "",
     linear |-> [x |-> RatZero, y |-> RatZero, z |-> RatZero],
     covariance |-> [i \in 0 .. 35 |-> RatZero]]

\* a handler is registered for the message kind
Subscribed(kind) == \E sub \in subscriptions : sub.kind = kind

Topics ==
    { "navposllh", "fix", "navvelned", "fix_velocity", "navsol", "navinfo",
      "monhw", "diagnostics" }

\* publisher.publish(msg)
Publish(p, topic, msg) == [p EXCEPT ![topic] = Append(@, msg)]

\* nothing published yet: the publishers as a handler finds them
NoOutput == [t \in Topics |-> << >>]

\* a pass-through that publishes the raw message whatever its flag says
RawOutput_Always(key, topic, m) == Publish(NoOutput, topic, m)

\* lines 163-165, 204-206 and 234-236: the raw message, when its flag is true
RawOutput(key, topic, m) ==
    IF getRosBoolean(key) THEN Publish(NoOutput, topic, m) ELSE NoOutput

(***************************************************************************)
(* fixDiagnostic: the health report for the latest NavSOL and NavPOSLLH.   *)
(***************************************************************************)
\* stat.add(key, value)
StatAdd(s, key, value) == [s EXCEPT !.values = Append(@, << key, value >>)]

\* a diagnostic that tests for no fix before it looks at the validity bit
FixDiagnosticLevel_NoFixFirst(s, sol) ==
    LET base ==
            IF sol.gps_fix = GPS_NO_FIX
            THEN [s EXCEPT !.level = ERROR, !.message = "No fix"]
            ELSE IF sol.gps_fix = GPS_DEAD_RECKONING_ONLY
            THEN [s EXCEPT !.level = WARN, !.message = "Dead reckoning only"]
            ELSE IF sol.gps_fix = GPS_2D_FIX
            THEN [s EXCEPT !.level = OK, !.message = "2D fix"]
            ELSE IF sol.gps_fix = GPS_3D_FIX
            THEN [s EXCEPT !.level = OK, !.message = "3D fix"]
            ELSE IF sol.gps_fix = GPS_GPS_DEAD_RECKONING_COMBINED
            THEN [s EXCEPT !.level = OK,
                           !.message = "GPS and dead reckoning combined"]
            ELSE IF sol.gps_fix = GPS_TIME_ONLY_FIX
            THEN [s EXCEPT !.level = OK, !.message = "Time fix only"]
            ELSE s
    IN  IF BitAnd(sol.flags, FLAGS_GPS_FIX_OK) = 0
        THEN [base EXCEPT !.level = WARN, !.message = @ \o ", fix not ok"]
        ELSE base

\* a diagnostic that replaces the message when the validity bit is unset
FixDiagnosticLevel_Replace(s, sol) ==
    LET base ==
            IF sol.gps_fix = GPS_DEAD_RECKONING_ONLY
            THEN [s EXCEPT !.level = WARN, !.message = "Dead reckoning only"]
            ELSE IF sol.gps_fix = GPS_2D_FIX
            THEN [s EXCEPT !.level = OK, !.message = "2D fix"]
            ELSE IF sol.gps_fix = GPS_3D_FIX
            THEN [s EXCEPT !.level = OK, !.message = "3D fix"]
            ELSE IF sol.gps_fix = GPS_GPS_DEAD_RECKONING_COMBINED
            THEN [s EXCEPT !.level = OK,
                           !.message = "GPS and dead reckoning combined"]
            ELSE IF sol.gps_fix = GPS_TIME_ONLY_FIX
            THEN [s EXCEPT !.level = OK, !.message = "Time fix only"]
            ELSE s
        masked ==
            IF BitAnd(sol.flags, FLAGS_GPS_FIX_OK) = 0
            THEN [base EXCEPT !.level = WARN, !.message = "fix not ok"]
            ELSE base
    IN  IF sol.gps_fix = GPS_NO_FIX
        THEN [masked EXCEPT !.level = ERROR, !.message = "No fix"]
        ELSE masked

\* level and message, lines 122-149
FixDiagnosticLevel(s, sol) ==
    LET base ==
            IF sol.gps_fix = GPS_DEAD_RECKONING_ONLY
            THEN [s EXCEPT !.level = WARN, !.message = "Dead reckoning only"]
            ELSE IF sol.gps_fix = GPS_2D_FIX
            THEN [s EXCEPT !.level = OK, !.message = "2D fix"]
            ELSE IF sol.gps_fix = GPS_3D_FIX
            THEN [s EXCEPT !.level = OK, !.message = "3D fix"]
            ELSE IF sol.gps_fix = GPS_GPS_DEAD_RECKONING_COMBINED
            THEN [s EXCEPT !.level = OK,
                           !.message = "GPS and dead reckoning combined"]
            ELSE IF sol.gps_fix = GPS_TIME_ONLY_FIX
            THEN [s EXCEPT !.level = OK, !.message = "Time fix only"]
            ELSE s
        masked ==
            IF BitAnd(sol.flags, FLAGS_GPS_FIX_OK) = 0
            THEN [base EXCEPT !.level = WARN,
                              !.message = @ \o ", fix not ok"]
            ELSE base
    IN  IF sol.gps_fix = GPS_NO_FIX
        THEN [masked EXCEPT !.level = ERROR, !.message = "No fix"]
        ELSE masked

\* the key-value fields, lines 151-159
FixDiagnosticValues(s, sol, pos) ==
    LET s1 == StatAdd(s, "iTOW [ms]", RatOfInt(pos.i_tow))
        s2 == StatAdd(s1, "Latitude [deg]", Rat(pos.lat, 10000000))
        s3 == StatAdd(s2, "Longitude [deg]", Rat(pos.lon, 10000000))
        s4 == StatAdd(s3, "Altitude [m]", Rat(pos.height, 1000))
        s5 == StatAdd(s4, "Height above MSL [m]", Rat(pos.h_msl, 1000))
        s6 == StatAdd(s5, "Horizontal Accuracy [m]", Rat(pos.h_acc, 1000))
        s7 == StatAdd(s6, "Vertical Accuracy [m]", Rat(pos.v_acc, 1000))
    IN  StatAdd(s7, "# SVs used", RatOfInt(sol.num_sv))

FixDiagnosticOf(s, sol, pos) ==
    FixDiagnosticValues(FixDiagnosticLevel(s, sol), sol, pos)

\* the wrapper the diagnostic updater hands to a task
UpdaterStatus ==
    [level |-> ERROR, message |-> "No message was set", values |-> << >>]

\* wrappers a caller of fixDiagnostic may hand in
PriorStatus ==
    { UpdaterStatus,
      [level |-> OK, message |-> "", values |-> << >>],
      [level |-> WARN, message |-> "Dead reckoning only", values |-> << >>],
      [level |-> OK, message |-> "3D fix", values |-> << >>] }

\* the caller of fixDiagnostic prepares a wrapper
NewStat ==
    /\ phase = "subscribed"
    /\ \E s \in PriorStatus : stat' = s
    /\ statRuns' = 0
    /\ UNCHANGED << concVars, configVars, telemetryVars >>

fixDiagnostic ==
    /\ phase = "subscribed"
    /\ statRuns < MaxStatRuns
    /\ stat' = FixDiagnosticOf(stat, last_nav_sol_, last_nav_pos_)
    /\ statRuns' = statRuns + 1
    /\ UNCHANGED << concVars, configVars, telemetryVars >>

(***************************************************************************)
(* The telemetry handlers.                                                 *)
(***************************************************************************)
Delivered == delivered.pos + delivered.vel + delivered.sol

\* an update that reports the position sample stored before this handler ran
UpdaterUpdate_Predecessor(p, run, sol, pos) ==
    IF run
    THEN Publish(p, "diagnostics",
                 FixDiagnosticOf(UpdaterStatus, sol, last_nav_pos_))
    ELSE p

\* updater_->update(): runs the fix diagnostic on a fresh wrapper and
\* publishes the report, unless the updater's period has not elapsed
UpdaterUpdate(p, run, sol, pos) ==
    IF run
    THEN Publish(p, "diagnostics", FixDiagnosticOf(UpdaterStatus, sol, pos))
    ELSE p

\* a fix that never reuses the velocity's stamp
FixStamp_AlwaysNow(m) == now

\* a fix that reuses the velocity's stamp only while that stamp is current
FixStamp_WhileCurrent(m) ==
    IF m.i_tow = last_nav_vel_.i_tow /\ velocity_.stamp = now
    THEN velocity_.stamp
    ELSE now

\* lines 167-172: the stamp of the fix for sample m
FixStamp(m) ==
    IF m.i_tow = last_nav_vel_.i_tow THEN velocity_.stamp ELSE now

\* a status that asks for better than a 2D fix
FixStatus_Above2D(sol) ==
    IF sol.gps_fix > GPS_2D_FIX THEN STATUS_FIX ELSE STATUS_NO_FIX

\* a status that accepts a 3D fix alone
FixStatus_3DOnly(sol) ==
    IF sol.gps_fix = GPS_3D_FIX THEN STATUS_FIX ELSE STATUS_NO_FIX

\* lines 179-183
FixStatus(sol) ==
    IF sol.gps_fix >= GPS_2D_FIX THEN STATUS_FIX ELSE STATUS_NO_FIX

\* a covariance whose second horizontal term takes the vertical variance
FixCovariance_Swapped(cov, m) ==
    LET var_h == RatSq(Rat(m.h_acc, 1000))
        var_v == RatSq(Rat(m.v_acc, 1000))
    IN  [cov EXCEPT ![0] = var_h, ![4] = var_v, ![8] = var_v]

\* lines 185-193
FixCovariance(cov, m) ==
    LET var_h == RatSq(Rat(m.h_acc, 1000))
        var_v == RatSq(Rat(m.v_acc, 1000))
    IN  [cov EXCEPT ![0] = var_h, ![4] = var_h, ![8] = var_v]

\* lines 167-195: fix_ as the handler fills it for sample m
FixOf(m) ==
    [fix_ EXCEPT
       !.stamp = FixStamp(m),
       !.frame_id = FrameId,
       !.latitude = Rat(m.lat, 10000000),
       !.longitude = Rat(m.lon, 10000000),
       !.altitude = Rat(m.height, 1000),
       !.status = FixStatus(last_nav_sol_),
       !.position_covariance = FixCovariance(@, m),
       !.position_covariance_type = COVARIANCE_TYPE_DIAGONAL_KNOWN,
       !.service = SERVICE_GPS]

callbackNavPosLlh ==
    /\ Subscribed("NavPOSLLH")
    /\ Delivered < MaxSamples
    /\ \E m \in PosSamples, run \in BOOLEAN :
        LET raw == RawOutput("publish/nav/posllh", "navposllh", m)
            fix == FixOf(m)
            done == UpdaterUpdate(Publish(raw, "fix", fix), run,
                                  last_nav_sol_, m)
        IN  /\ fix_' = fix
            /\ last_nav_pos_' = m
            /\ freq_diag_' = fix.stamp
            /\ pubs' = done
            /\ fixLog' = Append(fixLog,
                   [i_tow |-> m.i_tow, stamp |-> fix.stamp,
                    fresh |-> m.i_tow # last_nav_vel_.i_tow])
            /\ delivered' = [delivered EXCEPT !.pos = @ + 1]
    /\ UNCHANGED << concVars, configVars, diagVars, last_nav_vel_, last_nav_sol_,
                    velocity_, now, velLog >>

\* a velocity that never reuses the fix's stamp
VelocityStamp_AlwaysNow(m) == now

\* lines 208-213: the stamp of the velocity for sample m
VelocityStamp(m) ==
    IF m.i_tow = last_nav_pos_.i_tow THEN fix_.stamp ELSE now

\* a covariance whose angular term is computed from the speed accuracy
VelocityCovariance_Angular(cov, m) ==
    LET var_speed == RatSq(Rat(m.s_acc, 100))
        cols == 6
    IN  [cov EXCEPT ![cols * 0 + 0] = var_speed,
                    ![cols * 1 + 1] = var_speed,
                    ![cols * 2 + 2] = var_speed,
                    ![cols * 3 + 3] = var_speed]

\* lines 221-227
VelocityCovariance(cov, m) ==
    LET var_speed == RatSq(Rat(m.s_acc, 100))
        cols == 6
    IN  [cov EXCEPT ![cols * 0 + 0] = var_speed,
                    ![cols * 1 + 1] = var_speed,
                    ![cols * 2 + 2] = var_speed,
                    ![cols * 3 + 3] = RatOfInt(0 - 1)]

\* lines 208-227: velocity_ as the handler fills it for sample m
VelocityOf(m) ==
    [velocity_ EXCEPT
       !.stamp = VelocityStamp(m),
       !.frame_id = FrameId,
       !.linear = [x |-> Rat(m.vel_e, 100),
                   y |-> Rat(m.vel_n, 100),
                   z |-> Rat(0 - m.vel_d, 100)],
       !.covariance = VelocityCovariance(@, m)]

callbackNavVelNed ==
    /\ Subscribed("NavVELNED")
    /\ Delivered < MaxSamples
    /\ \E m \in VelSamples :
        LET raw == RawOutput("publish/nav/velned", "navvelned", m)
            vel == VelocityOf(m)
            done == Publish(raw, "fix_velocity", vel)
        IN  /\ velocity_' = vel
            /\ last_nav_vel_' = m
            /\ pubs' = done
            /\ velLog' = Append(velLog,
                   [i_tow |-> m.i_tow, stamp |-> vel.stamp,
                    fresh |-> m.i_tow # last_nav_pos_.i_tow])
            /\ delivered' = [delivered EXCEPT !.vel = @ + 1]
    /\ UNCHANGED << concVars, configVars, diagVars, last_nav_pos_, last_nav_sol_,
                    fix_, now, freq_diag_, fixLog >>

\* a quality handler that re-derives the status of the retained fix
callbackNavSol_Restatus(samples) ==
    /\ Subscribed("NavSOL")
    /\ Delivered < MaxSamples
    /\ \E m \in samples :
        /\ pubs' = RawOutput("publish/nav/sol", "navsol", m)
        /\ last_nav_sol_' = m
        /\ fix_' = [fix_ EXCEPT !.status = FixStatus(m)]
    /\ delivered' = [delivered EXCEPT !.sol = @ + 1]
    /\ UNCHANGED << concVars, configVars, diagVars, last_nav_pos_, last_nav_vel_,
                    velocity_, now, freq_diag_, fixLog, velLog >>

callbackNavSol(samples) ==
    /\ Subscribed("NavSOL")
    /\ Delivered < MaxSamples
    /\ \E m \in samples :
        LET done == RawOutput("publish/nav/sol", "navsol", m)
        IN  /\ pubs' = done
            /\ last_nav_sol_' = m
    /\ delivered' = [delivered EXCEPT !.sol = @ + 1]
    /\ UNCHANGED << concVars, configVars, diagVars, last_nav_pos_, last_nav_vel_,
                    fix_, velocity_, now, freq_diag_, fixLog, velLog >>

\* time passes
Tick ==
    /\ phase = "subscribed"
    /\ now < MaxTime
    /\ now' = now + 1
    /\ UNCHANGED << concVars, configVars, diagVars, last_nav_pos_, last_nav_vel_,
                    last_nav_sol_, fix_, velocity_, pubs, freq_diag_,
                    fixLog, velLog, delivered >>

(***************************************************************************)
(* Construction, getRosParams, configureUblox and subscribe.               *)
(***************************************************************************)
NoParams ==
    [bools |-> [k \in BoolKeys |-> "absent"],
     uints |-> [k \in UintKeys |-> NoValue]]

DefaultCfgNmea == [version |-> 0, num_sv |-> 0, flags |-> 0, filter |-> 0]

GnssWarning == "ublox_version < 7, ignoring GNSS settings"

VersionMissing ==
    "Invalid settings: nmea/set is true, therefore nmea/version must be set"

NumSvMissing ==
    "Invalid settings: nmea/set is true, therefore nmea/num_sv must be set"

NmeaFailed == "Failed to configure NMEA"

\* rate of the NavSVINFO subscription
kNavSvInfoSubscribeRate == 20

InitTelemetry ==
    /\ last_nav_pos_ = DefaultNavPosLlh
    /\ last_nav_vel_ = DefaultNavVelNed
    /\ last_nav_sol_ = DefaultNavSol
    /\ fix_ = DefaultFix
    /\ velocity_ = DefaultVelocity
    /\ now = 1
    /\ pubs = NoOutput
    /\ freq_diag_ = UnsetStamp
    /\ fixLog = << >>
    /\ velLog = << >>
    /\ delivered = [pos |-> 0, vel |-> 0, sol |-> 0]
    /\ stat = UpdaterStatus
    /\ statRuns = 0
    /\ pc = [pos |-> "idle", vel |-> "idle", sol |-> "idle", diag |-> "idle"]
    /\ idx = [pos |-> 0, sol |-> 0, diag |-> 0]
    /\ cur = [pos |-> DefaultNavPosLlh, vel |-> DefaultNavVelNed,
              sol |-> DefaultNavSol]
    /\ match = [pos |-> FALSE, vel |-> FALSE]
    /\ stampFor = [fix |-> DefaultNavPosLlh.i_tow, vel |-> DefaultNavVelNed.i_tow]
    /\ rd = [pos |-> DefaultNavPosLlh, sol |-> DefaultNavSol]
    /\ whole = [pos |-> { DefaultNavPosLlh }, sol |-> { DefaultNavSol }]

\* the adapter as its constructor leaves it, lines 30-53
InitConstructed ==
    /\ phase = "constructed"
    /\ thrown = ""
    /\ cfg_nmea_ = DefaultCfgNmea
    /\ fix_status_service_ = 0
    /\ rosLog = << >>
    /\ deviceCalls = << >>
    /\ subscriptions = {}
    /\ InitTelemetry

\* lines 72-73
NmeaFlags ==
    BitOr(IF getRosBoolean("nmea/compat") THEN FLAGS_COMPAT ELSE 0,
          IF getRosBoolean("nmea/consider") THEN FLAGS_CONSIDER ELSE 0)

\* lines 76-81
NmeaFilter(filter) ==
    LET f1 == BitOr(filter, IF getRosBoolean("nmea/filter/pos")
                            THEN FILTER_POS ELSE 0)
        f2 == BitOr(f1, IF getRosBoolean("nmea/filter/msk_pos")
                        THEN FILTER_MSK_POS ELSE 0)
        f3 == BitOr(f2, IF getRosBoolean("nmea/filter/time")
                        THEN FILTER_TIME ELSE 0)
        f4 == BitOr(f3, IF getRosBoolean("nmea/filter/date")
                        THEN FILTER_DATE ELSE 0)
        f5 == BitOr(f4, IF getRosBoolean("nmea/filter/sbas")
                        THEN FILTER_SBAS_FILT ELSE 0)
    IN  BitOr(f5, IF getRosBoolean("nmea/filter/track")
                  THEN FILTER_TRACK ELSE 0)

\* a getRosParams that keeps the old num_sv when nmea/num_sv is missing
NmeaSettings_DefaultNumSv(cfg) ==
    IF ~getRosBoolean("nmea/set")
    THEN [error |-> "", cfg |-> cfg]
    ELSE IF ~getRosUint("nmea/version")
    THEN [error |-> VersionMissing, cfg |-> cfg]
    ELSE [error |-> "",
          cfg |-> [version |-> node_.uints["nmea/version"],
                   num_sv |-> IF getRosUint("nmea/num_sv")
                              THEN node_.uints["nmea/num_sv"]
                              ELSE cfg.num_sv,
                   flags |-> NmeaFlags,
                   filter |-> NmeaFilter(cfg.filter)]]

\* lines 59-82: the NMEA settings read from the parameters, or the error
NmeaSettings(cfg) ==
    IF ~getRosBoolean("nmea/set")
    THEN [error |-> "", cfg |-> cfg]
    ELSE IF ~getRosUint("nmea/version")
    THEN [error |-> VersionMissing, cfg |-> cfg]
    ELSE IF ~getRosUint("nmea/num_sv")
    THEN [error |-> NumSvMissing,
          cfg |-> [cfg EXCEPT !.version = node_.uints["nmea/version"]]]
    ELSE [error |-> "",
          cfg |-> [version |-> node_.uints["nmea/version"],
                   num_sv |-> node_.uints["nmea/num_sv"],
                   flags |-> NmeaFlags,
                   filter |-> NmeaFilter(cfg.filter)]]

getRosParams ==
    /\ phase = "constructed"
    /\ fix_status_service_' = SERVICE_GPS
    /\ LET r == NmeaSettings(cfg_nmea_)
       IN  /\ cfg_nmea_' = r.cfg
           /\ thrown' = r.error
           /\ phase' = IF r.error = "" THEN "params" ELSE "params_error"
    /\ UNCHANGED << concVars, node_, rosLog, deviceCalls, subscriptions, telemetryVars,
                    diagVars >>

\* a configureUblox that calls the device whatever nmea/set says
NmeaRequested_Always == TRUE

\* line 88, left of && : whether gps->configure(cfg_nmea_) is reached
NmeaRequested == getRosBoolean("nmea/set")

\* a configureUblox that returns true although the device rejected the settings
ConfigureResult_IgnoreRejection(accepted) ==
    [thrown |-> "", phase |-> "configured"]

\* lines 88-92: the throw when gps->configure() returned false, else return true
ConfigureResult(accepted) ==
    IF accepted
    THEN [thrown |-> "", phase |-> "configured"]
    ELSE [thrown |-> NmeaFailed, phase |-> "configure_error"]

configureUblox ==
    /\ phase = "params"
    /\ rosLog' = Append(rosLog, GnssWarning)
    /\ IF NmeaRequested
       THEN \E accepted \in BOOLEAN :
               /\ deviceCalls' =
                    Append(deviceCalls,
                           [request |-> "CfgNMEA6", cfg |-> cfg_nmea_,
                            accepted |-> accepted])
               /\ thrown' = ConfigureResult(accepted).thrown
               /\ phase' = ConfigureResult(accepted).phase
       ELSE /\ deviceCalls' = deviceCalls
            /\ thrown' = ""
            /\ phase' = "configured"
    /\ UNCHANGED << concVars, node_, cfg_nmea_, fix_status_service_, subscriptions,
                    telemetryVars, diagVars >>

\* a subscribe that registers the position handler only when the raw position
\* messages are published
Subscriptions_RawGated ==
    ( IF getRosBoolean("publish/nav/posllh")
      THEN { [kind |-> "NavPOSLLH", rate |-> 1] }
      ELSE {} )
    \cup { [kind |-> "NavSOL", rate |-> 1], [kind |-> "NavVELNED", rate |-> 1] }
    \cup ( IF getRosBoolean("publish/nav/svinfo")
           THEN { [kind |-> "NavSVINFO", rate |-> kNavSvInfoSubscribeRate] }
           ELSE {} )
    \cup ( IF getRosBoolean("publish/mon/hw")
           THEN { [kind |-> "MonHW6", rate |-> 1] }
           ELSE {} )

\* lines 95-118
Subscriptions ==
    { [kind |-> "NavPOSLLH", rate |-> 1], [kind |-> "NavSOL", rate |-> 1],
      [kind |-> "NavVELNED", rate |-> 1] }
    \cup ( IF getRosBoolean("publish/nav/svinfo")
           THEN { [kind |-> "NavSVINFO", rate |-> kNavSvInfoSubscribeRate] }
           ELSE {} )
    \cup ( IF getRosBoolean("publish/mon/hw")
           THEN { [kind |-> "MonHW6", rate |-> 1] }
           ELSE {} )

subscribe ==
    /\ phase = "configured"
    /\ subscriptions' = subscriptions \cup Subscriptions
    /\ phase' = "subscribed"
    /\ UNCHANGED << concVars, node_, thrown, cfg_nmea_, fix_status_service_, rosLog,
                    deviceCalls, telemetryVars, diagVars >>

(***************************************************************************)
(* SpecConfig: the set-up of the adapter under every configuration.        *)
(***************************************************************************)
\* the raw pass-through flags posllh, velned and sol, as configurations set them
RawFlagConfigs ==
    { << "true", "false", "absent" >>,
      << "false", "true", "true" >>,
      << "absent", "absent", "false" >> }

\* the sentence filter keys, as configurations set them
FilterConfigs ==
    { [pos |-> a[1], msk_pos |-> a[2], time |-> a[3], date |-> a[4],
       sbas |-> a[5], track |-> a[6]] :
      a \in { << "absent", "absent", "absent", "absent", "absent", "absent" >>,
              << "true", "false", "false", "false", "false", "false" >>,
              << "absent", "true", "true", "absent", "false", "absent" >>,
              << "false", "absent", "absent", "true", "true", "true" >>,
              << "true", "true", "true", "true", "true", "true" >> } }

Configs ==
    { [bools |->
         [k \in BoolKeys |->
            CASE k = "nmea/set" -> set
              [] k = "nmea/compat" -> compat
              [] k = "nmea/consider" -> consider
              [] k = "nmea/filter/pos" -> f.pos
              [] k = "nmea/filter/msk_pos" -> f.msk_pos
              [] k = "nmea/filter/time" -> f.time
              [] k = "nmea/filter/date" -> f.date
              [] k = "nmea/filter/sbas" -> f.sbas
              [] k = "nmea/filter/track" -> f.track
              [] k = "publish/nav/svinfo" -> svinfo
              [] k = "publish/mon/hw" -> hw
              [] k = "publish/nav/posllh" -> raw[1]
              [] k = "publish/nav/velned" -> raw[2]
              [] k = "publish/nav/sol" -> raw[3]
              [] OTHER -> "absent"],
       uints |->
         [k \in UintKeys |-> IF k = "nmea/version" THEN version ELSE num_sv]] :
      set \in BoolValues, compat \in BoolValues, consider \in BoolValues,
      f \in FilterConfigs, svinfo \in BoolValues, hw \in BoolValues,
      version \in { NoValue, 35 }, num_sv \in { NoValue, 8 },
      raw \in RawFlagConfigs }

InitConfig ==
    /\ node_ \in Configs
    /\ InitConstructed

NextConfig ==
    \/ getRosParams
    \/ configureUblox
    \/ subscribe

SpecConfig == InitConfig /\ [][NextConfig]_vars

(***************************************************************************)
(* Spec: the adapter after subscribe(), handlers run one at a time.        *)
(***************************************************************************)
\* configurations that differ in the raw pass-through flags
PublishConfigs ==
    { [NoParams EXCEPT !.bools["publish/nav/posllh"] = c[1],
                       !.bools["publish/nav/velned"] = c[2],
                       !.bools["publish/nav/sol"] = c[3]] :
      c \in RawFlagConfigs }

\* the adapter after getRosParams, configureUblox and subscribe, when the
\* configuration asks for no NMEA settings and no informational messages
InitSubscribed ==
    /\ phase = "subscribed"
    /\ thrown = ""
    /\ cfg_nmea_ = DefaultCfgNmea
    /\ fix_status_service_ = SERVICE_GPS
    /\ rosLog = << GnssWarning >>
    /\ deviceCalls = << >>
    /\ subscriptions =
         { [kind |-> "NavPOSLLH", rate |-> 1], [kind |-> "NavSOL", rate |-> 1],
           [kind |-> "NavVELNED", rate |-> 1] }
    /\ InitTelemetry

Init ==
    /\ node_ \in PublishConfigs
    /\ InitSubscribed

Next ==
    \/ callbackNavPosLlh
    \/ callbackNavVelNed
    \/ callbackNavSol(FixOkSolSamples)
    \/ Tick

Spec == Init /\ [][Next]_vars

(***************************************************************************)
(* SpecConc: the position handler, the solution-quality handler and a      *)
(* polled fixDiagnostic run concurrently.  No lock, mutex or atomic guards  *)
(* last_nav_pos_ and last_nav_sol_ in the source, so the copies of lines    *)
(* 197 and 237 and the reads of lines 123-159 interleave field by field.    *)
(* Deliveries of one kind are serialised.                                   *)
(***************************************************************************)
\* last_nav_pos_ = m copies the fields in the order the message declares them
PosFields == << "i_tow", "lon", "lat", "height", "h_msl", "h_acc", "v_acc" >>

\* last_nav_sol_ = m
SolFields == << "gps_fix", "flags", "num_sv" >>

\* the fields fixDiagnostic reads, in the order of lines 123-159
DiagReads ==
    << << "sol", "gps_fix" >>, << "sol", "flags" >>, << "pos", "i_tow" >>,
       << "pos", "lat" >>, << "pos", "lon" >>, << "pos", "height" >>,
       << "pos", "h_msl" >>, << "pos", "h_acc" >>, << "pos", "v_acc" >>,
       << "sol", "num_sv" >> >>

\* the samples delivered in the concurrent runs
ConcPosSamples == { m \in PosSamples : m.i_tow = MaxEpoch }

ConcSolSamples ==
    { m \in FixOkSolSamples : m.gps_fix \in { GPS_NO_FIX, GPS_3D_FIX } }

\* lines 163-196 of callbackNavPosLlh
ConcPosBegin ==
    /\ Subscribed("NavPOSLLH")
    /\ pc.pos = "idle"
    /\ Delivered < MaxSamples
    /\ \E m \in ConcPosSamples :
        LET raw == RawOutput("publish/nav/posllh", "navposllh", m)
            fix == FixOf(m)
        IN  /\ fix_' = fix
            /\ pubs' = Publish(raw, "fix", fix)
            /\ fixLog' = Append(fixLog,
                   [i_tow |-> m.i_tow, stamp |-> fix.stamp,
                    fresh |-> m.i_tow # last_nav_vel_.i_tow])
            /\ cur' = [cur EXCEPT !.pos = m]
            /\ whole' = [whole EXCEPT !.pos = @ \cup { m }]
    /\ delivered' = [delivered EXCEPT !.pos = @ + 1]
    /\ pc' = [pc EXCEPT !.pos = "copy"]
    /\ idx' = [idx EXCEPT !.pos = 0]
    /\ UNCHANGED << configVars, diagVars, rd, match, stampFor, last_nav_pos_,
                    last_nav_vel_, last_nav_sol_, velocity_, now, freq_diag_,
                    velLog >>

\* line 197, one field; after the last field lines 198-200, the updater's
\* period not having elapsed
ConcPosCopy ==
    /\ pc.pos = "copy"
    /\ LET f == PosFields[idx.pos + 1]
       IN  last_nav_pos_' = [last_nav_pos_ EXCEPT ![f] = cur.pos[f]]
    /\ idx' = [idx EXCEPT !.pos = @ + 1]
    /\ IF idx.pos + 1 = Len(PosFields)
       THEN /\ pc' = [pc EXCEPT !.pos = "idle"]
            /\ freq_diag_' = fix_.stamp
       ELSE UNCHANGED << pc, freq_diag_ >>
    /\ UNCHANGED << configVars, diagVars, cur, rd, whole, match, stampFor,
                    last_nav_vel_, last_nav_sol_, fix_, velocity_, now, pubs,
                    fixLog, velLog, delivered >>

\* lines 234-236 of callbackNavSol
ConcSolBegin ==
    /\ Subscribed("NavSOL")
    /\ pc.sol = "idle"
    /\ Delivered < MaxSamples
    /\ \E m \in ConcSolSamples :
        /\ pubs' = RawOutput("publish/nav/sol", "navsol", m)
        /\ cur' = [cur EXCEPT !.sol = m]
        /\ whole' = [whole EXCEPT !.sol = @ \cup { m }]
    /\ delivered' = [delivered EXCEPT !.sol = @ + 1]
    /\ pc' = [pc EXCEPT !.sol = "copy"]
    /\ idx' = [idx EXCEPT !.sol = 0]
    /\ UNCHANGED << configVars, diagVars, rd, match, stampFor, last_nav_pos_,
                    last_nav_vel_, last_nav_sol_, fix_, velocity_, now,
                    freq_diag_, fixLog, velLog >>

\* line 237, one field
ConcSolCopy ==
    /\ pc.sol = "copy"
    /\ LET f == SolFields[idx.sol + 1]
       IN  last_nav_sol_' = [last_nav_sol_ EXCEPT ![f] = cur.sol[f]]
    /\ idx' = [idx EXCEPT !.sol = @ + 1]
    /\ pc' = IF idx.sol + 1 = Len(SolFields)
             THEN [pc EXCEPT !.sol = "idle"]
             ELSE pc
    /\ UNCHANGED << configVars, diagVars, cur, rd, whole, match, stampFor,
                    last_nav_pos_, last_nav_vel_, fix_, velocity_, now, pubs,
                    freq_diag_, fixLog, velLog, delivered >>

\* the diagnostic updater's poll calls fixDiagnostic on a fresh wrapper
ConcDiagBegin ==
    /\ phase = "subscribed"
    /\ pc.diag = "idle"
    /\ statRuns < MaxStatRuns
    /\ pc' = [pc EXCEPT !.diag = "read"]
    /\ idx' = [idx EXCEPT !.diag = 0]
    /\ rd' = [pos |-> DefaultNavPosLlh, sol |-> DefaultNavSol]
    /\ stat' = UpdaterStatus
    /\ UNCHANGED << configVars, telemetryVars, statRuns, cur, whole, match,
                    stampFor >>

\* one read of lines 123-159; after the last one the report is complete
ConcDiagRead ==
    /\ pc.diag = "read"
    /\ LET r == DiagReads[idx.diag + 1]
           read ==
               IF r[1] = "sol"
               THEN [rd EXCEPT !.sol[r[2]] = last_nav_sol_[r[2]]]
               ELSE [rd EXCEPT !.pos[r[2]] = last_nav_pos_[r[2]]]
       IN  /\ rd' = read
           /\ IF idx.diag + 1 = Len(DiagReads)
              THEN /\ stat' = FixDiagnosticOf(stat, read.sol, read.pos)
                   /\ statRuns' = statRuns + 1
                   /\ pc' = [pc EXCEPT !.diag = "idle"]
              ELSE UNCHANGED << stat, statRuns, pc >>
    /\ idx' = [idx EXCEPT !.diag = @ + 1]
    /\ UNCHANGED << configVars, telemetryVars, cur, whole, match, stampFor >>

InitConc ==
    /\ node_ = [NoParams EXCEPT !.bools["publish/nav/sol"] = "true"]
    /\ InitSubscribed

NextConc ==
    \/ ConcPosBegin
    \/ ConcPosCopy
    \/ ConcSolBegin
    \/ ConcSolCopy
    \/ ConcDiagBegin
    \/ ConcDiagRead

SpecConc == InitConc /\ [][NextConc]_vars

\* C6, as claimed: a diagnostic never observes partially updated state: every
\* report is computed from a position sample and a solution-quality sample
\* that are each one whole delivered sample (or the initial one).
C6_ReportFromWholeSamples ==
    (pc.diag = "idle" /\ statRuns > 0) =>
        (rd.pos \in whole.pos /\ rd.sol \in whole.sol)

(***************************************************************************)
(* SpecRace: the position handler and the velocity handler run             *)
(* concurrently, interleaved statement by statement.  Deliveries of one    *)
(* kind are serialised.  Each handler compares epochs (lines 168, 209),    *)
(* writes its stamp (169/171, 210/212), fills and publishes its message    *)
(* (174-196, 214-229) and only then stores the sample (197, 230).          *)
(***************************************************************************)
RacePosSamples == { m \in PosSamples : m.h_acc = 500 }

RaceVelSamples == { m \in VelSamples : m.s_acc = 50 }

\* lines 163-168: raw pass-through, then the comparison of the epochs
RacePosCompare ==
    /\ Subscribed("NavPOSLLH")
    /\ pc.pos = "idle"
    /\ Delivered < MaxSamples
    /\ \E m \in RacePosSamples :
        /\ pubs' = RawOutput("publish/nav/posllh", "navposllh", m)
        /\ cur' = [cur EXCEPT !.pos = m]
        /\ match' = [match EXCEPT !.pos = (m.i_tow = last_nav_vel_.i_tow)]
    /\ delivered' = [delivered EXCEPT !.pos = @ + 1]
    /\ pc' = [pc EXCEPT !.pos = "stamp"]
    /\ UNCHANGED << configVars, diagVars, idx, rd, whole, stampFor,
                    last_nav_pos_, last_nav_vel_, last_nav_sol_, fix_,
                    velocity_, now, freq_diag_, fixLog, velLog >>

\* line 169 or line 171
RacePosStamp ==
    /\ pc.pos = "stamp"
    /\ fix_' = [fix_ EXCEPT
                  !.stamp = IF match.pos THEN velocity_.stamp ELSE now]
    /\ stampFor' = [stampFor EXCEPT !.fix = cur.pos.i_tow]
    /\ pc' = [pc EXCEPT !.pos = "publish"]
    /\ UNCHANGED << configVars, diagVars, idx, cur, rd, whole, match,
                    last_nav_pos_, last_nav_vel_, last_nav_sol_, velocity_,
                    now, pubs, freq_diag_, fixLog, velLog, delivered >>

\* lines 174-196
RacePosPublish ==
    /\ pc.pos = "publish"
    /\ LET fix == [FixOf(cur.pos) EXCEPT !.stamp = fix_.stamp]
       IN  /\ fix_' = fix
           /\ pubs' = Publish(pubs, "fix", fix)
    /\ pc' = [pc EXCEPT !.pos = "store"]
    /\ UNCHANGED << configVars, diagVars, idx, cur, rd, whole, match, stampFor,
                    last_nav_pos_, last_nav_vel_, last_nav_sol_, velocity_,
                    now, freq_diag_, fixLog, velLog, delivered >>

\* lines 197-200, the updater's period not having elapsed
RacePosStore ==
    /\ pc.pos = "store"
    /\ last_nav_pos_' = cur.pos
    /\ freq_diag_' = fix_.stamp
    /\ pc' = [pc EXCEPT !.pos = "idle"]
    /\ UNCHANGED << configVars, diagVars, idx, cur, rd, whole, match, stampFor,
                    last_nav_vel_, last_nav_sol_, fix_, velocity_, now, pubs,
                    fixLog, velLog, delivered >>

\* lines 204-209: raw pass-through, then the comparison of the epochs
RaceVelCompare ==
    /\ Subscribed("NavVELNED")
    /\ pc.vel = "idle"
    /\ Delivered < MaxSamples
    /\ \E m \in RaceVelSamples :
        /\ pubs' = RawOutput("publish/nav/velned", "navvelned", m)
        /\ cur' = [cur EXCEPT !.vel = m]
        /\ match' = [match EXCEPT !.vel = (m.i_tow = last_nav_pos_.i_tow)]
    /\ delivered' = [delivered EXCEPT !.vel = @ + 1]
    /\ pc' = [pc EXCEPT !.vel = "stamp"]
    /\ UNCHANGED << configVars, diagVars, idx, rd, whole, stampFor,
                    last_nav_pos_, last_nav_vel_, last_nav_sol_, fix_,
                    velocity_, now, freq_diag_, fixLog, velLog >>

\* line 210 or line 212
RaceVelStamp ==
    /\ pc.vel = "stamp"
    /\ velocity_' = [velocity_ EXCEPT
                       !.stamp = IF match.vel THEN fix_.stamp ELSE now]
    /\ stampFor' = [stampFor EXCEPT !.vel = cur.vel.i_tow]
    /\ pc' = [pc EXCEPT !.vel = "publish"]
    /\ UNCHANGED << configVars, diagVars, idx, cur, rd, whole, match,
                    last_nav_pos_, last_nav_vel_, last_nav_sol_, fix_, now,
                    pubs, freq_diag_, fixLog, velLog, delivered >>

\* lines 214-229
RaceVelPublish ==
    /\ pc.vel = "publish"
    /\ LET vel == [VelocityOf(cur.vel) EXCEPT !.stamp = velocity_.stamp]
       IN  /\ velocity_' = vel
           /\ pubs' = Publish(pubs, "fix_velocity", vel)
    /\ pc' = [pc EXCEPT !.vel = "store"]
    /\ UNCHANGED << configVars, diagVars, idx, cur, rd, whole, match, stampFor,
                    last_nav_pos_, last_nav_vel_, last_nav_sol_, fix_, now,
                    freq_diag_, fixLog, velLog, delivered >>

\* line 230
RaceVelStore ==
    /\ pc.vel = "store"
    /\ last_nav_vel_' = cur.vel
    /\ pc' = [pc EXCEPT !.vel = "idle"]
    /\ UNCHANGED << configVars, diagVars, idx, cur, rd, whole, match, stampFor,
                    last_nav_pos_, last_nav_sol_, fix_, velocity_, now, pubs,
                    freq_diag_, fixLog, velLog, delivered >>

InitRace ==
    /\ node_ \in PublishConfigs
    /\ InitSubscribed

NextRace ==
    \/ RacePosCompare
    \/ RacePosStamp
    \/ RacePosPublish
    \/ RacePosStore
    \/ RaceVelCompare
    \/ RaceVelStamp
    \/ RaceVelPublish
    \/ RaceVelStore
    \/ Tick

SpecRace == InitRace /\ [][NextRace]_vars

\* C14, as claimed: under every interleaving of a position handler and a
\* velocity handler, a position sample takes over the velocity stamp only if
\* that stamp was written for a velocity sample of the same epoch token, and
\* a velocity sample takes over the fix stamp only if that stamp was written
\* for a position sample of the same epoch token.
C14_ReusedStampIsOfSameEpoch ==
    [][ /\ (pc.pos = "stamp" /\ pc'.pos = "publish" /\ match.pos)
            => stampFor.vel = cur.pos.i_tow
        /\ (pc.vel = "stamp" /\ pc'.vel = "publish" /\ match.vel)
            => stampFor.fix = cur.vel.i_tow ]_vars

(***************************************************************************)
(* Properties of the handlers run one at a time (Spec).                    *)
(***************************************************************************)
Last(q) == q[Len(q)]

\* C1, as claimed: any published fix and any published velocity whose samples
\* carry the same epoch token have the same timestamp, whatever was delivered
\* in between.
C1_AnyPairSameStamp ==
    \A i \in DOMAIN fixLog, j \in DOMAIN velLog :
        fixLog[i].i_tow = velLog[j].i_tow
            => fixLog[i].stamp = velLog[j].stamp

\* C1, amended: a position sample whose epoch token equals that of the most
\* recently delivered velocity sample is published with the timestamp of the
\* velocity published for that sample, and a velocity sample whose epoch token
\* equals that of the most recently delivered position sample is published
\* with the timestamp of the fix published for that sample.
C1_LatestCounterpartSameStamp ==
    [][ /\ ( /\ Len(fixLog') = Len(fixLog) + 1
             /\ velLog # << >>
             /\ Last(fixLog').i_tow = Last(velLog).i_tow )
            => Last(fixLog').stamp = Last(velLog).stamp
        /\ ( /\ Len(velLog') = Len(velLog) + 1
             /\ fixLog # << >>
             /\ Last(velLog').i_tow = Last(fixLog).i_tow )
            => Last(velLog').stamp = Last(fixLog).stamp ]_vars

\* a fix published later than the velocity of the same epoch, with its stamp
C1_Witness ==
    /\ fixLog # << >>
    /\ velLog # << >>
    /\ ~Last(fixLog).fresh
    /\ Last(fixLog).i_tow = Last(velLog).i_tow
    /\ Last(fixLog).stamp = Last(velLog).stamp
    /\ Last(velLog).fresh
    /\ Last(fixLog).stamp < now

\* C2, as claimed: every published fix and velocity carries a stamp that is a
\* freshly read current time or the stamp published for a received counterpart
\* sample of the same epoch token, and never the unset stamp.
C2_StampNeverUnset ==
    /\ \A i \in DOMAIN fixLog :
        /\ fixLog[i].stamp # UnsetStamp
        /\ \/ fixLog[i].fresh
           \/ \E j \in DOMAIN velLog :
                /\ velLog[j].i_tow = fixLog[i].i_tow
                /\ velLog[j].stamp = fixLog[i].stamp
    /\ \A j \in DOMAIN velLog :
        /\ velLog[j].stamp # UnsetStamp
        /\ \/ velLog[j].fresh
           \/ \E i \in DOMAIN fixLog :
                /\ fixLog[i].i_tow = velLog[j].i_tow
                /\ fixLog[i].stamp = velLog[j].stamp

\* the fixed ordering of the fix types
FixTypeOrdering ==
    << GPS_NO_FIX, GPS_DEAD_RECKONING_ONLY, GPS_2D_FIX, GPS_3D_FIX,
       GPS_GPS_DEAD_RECKONING_COMBINED, GPS_TIME_ONLY_FIX >>

Recognised(g) == \E i \in DOMAIN FixTypeOrdering : FixTypeOrdering[i] = g

Rank(g) == CHOOSE i \in DOMAIN FixTypeOrdering : FixTypeOrdering[i] = g

\* C3: the fix published for a position sample has status 'fix' if and only
\* if the fix type of the latest solution-quality sample is at or above 2D in
\* the fixed ordering, and 'no fix' otherwise, whatever the position sample.
C3_StatusIff2DOrBetter ==
    (pubs["fix"] # << >> /\ Recognised(last_nav_sol_.gps_fix)) =>
        /\ Len(pubs["fix"]) = 1
        /\ pubs["fix"][1].status \in { STATUS_FIX, STATUS_NO_FIX }
        /\ pubs["fix"][1].status = STATUS_FIX
               <=> Rank(last_nav_sol_.gps_fix) >= Rank(GPS_2D_FIX)

\* fixes published under a 2D fix type and under dead reckoning only
C3_Witness ==
    /\ pubs["fix"] # << >>
    /\ last_nav_sol_.gps_fix = GPS_2D_FIX
    /\ pubs["fix"][1].status = STATUS_FIX
    /\ last_nav_pos_.h_acc = 3000

\* n / d as a rational equals r
RatIs(r, n, d) == r.den > 0 /\ r.num * d = n * r.den

\* C7: the position covariance of a published fix has [0] and [4] equal to
\* the square of the sample's horizontal accuracy in metres, [8] equal to the
\* square of its vertical accuracy in metres, none of them negative, and zero
\* everywhere else; a horizontal accuracy of 500 gives 0.25.
C7_PositionCovariance ==
    pubs["fix"] # << >> =>
        LET cov == pubs["fix"][1].position_covariance
            m == last_nav_pos_
        IN  /\ RatIs(cov[0], m.h_acc * m.h_acc, 1000000)
            /\ RatIs(cov[4], m.h_acc * m.h_acc, 1000000)
            /\ RatIs(cov[8], m.v_acc * m.v_acc, 1000000)
            /\ \A i \in { 0, 4, 8 } : cov[i].num >= 0
            /\ \A i \in 0 .. 8 \ { 0, 4, 8 } : cov[i] = RatZero
            /\ m.h_acc = 500 => (cov[0] = Rat(25, 100) /\ cov[4] = Rat(25, 100))

\* a fix for a sample of horizontal accuracy 500, published after another one
C7_Witness ==
    /\ pubs["fix"] # << >>
    /\ Len(fixLog) >= 2
    /\ last_nav_pos_.h_acc = 500
    /\ pubs["fix"][1].position_covariance[4] = [num |-> 1, den |-> 4]
    /\ pubs["fix"][1].position_covariance[8] = [num |-> 9, den |-> 4]

\* C8: the covariance of a published velocity has the sentinel -1 at row 3,
\* column 3, the square of the speed accuracy in m/s at the three linear
\* diagonal terms, and zero everywhere else.
C8_VelocityCovariance ==
    pubs["fix_velocity"] # << >> =>
        LET cov == pubs["fix_velocity"][1].covariance
            m == last_nav_vel_
        IN  /\ cov[21] = RatOfInt(0 - 1)
            /\ \A i \in { 0, 7, 14 } : RatIs(cov[i], m.s_acc * m.s_acc, 10000)
            /\ \A i \in 0 .. 35 \ { 0, 7, 14, 21 } : cov[i] = RatZero

\* a velocity for a sample of speed accuracy 2 m/s, published after another one
C8_Witness ==
    /\ pubs["fix_velocity"] # << >>
    /\ Len(velLog) >= 2
    /\ last_nav_vel_.s_acc = 200
    /\ pubs["fix_velocity"][1].covariance[14] = RatOfInt(4)
    /\ pubs["fix_velocity"][1].covariance[21].num < 0

(***************************************************************************)
(* SpecDiag: fixDiagnostic run by a caller on wrappers of its own, while   *)
(* solution-quality samples arrive.                                        *)
(***************************************************************************)
InitDiag ==
    /\ node_ = [NoParams EXCEPT !.bools["publish/nav/sol"] = "true"]
    /\ InitSubscribed

NextDiag ==
    \/ callbackNavSol(SolSamples)
    \/ NewStat
    \/ fixDiagnostic

SpecDiag == InitDiag /\ [][NextDiag]_vars

\* a run of fixDiagnostic on the caller's wrapper
DiagnosticRan == statRuns' = statRuns + 1

\* C4: a run of fixDiagnostic while the latest solution quality has fix type
\* no-fix leaves severity error and the message "No fix", whatever the validity
\* bit and whatever the wrapper held before.
C4_NoFixIsError ==
    [][ (DiagnosticRan /\ last_nav_sol_.gps_fix = GPS_NO_FIX)
            => (stat'.level = ERROR /\ stat'.message = "No fix") ]_vars

\* a run under no-fix with the validity bit unset, on a wrapper run before
C4_Witness ==
    /\ statRuns = 2
    /\ last_nav_sol_ \in SolSamples
    /\ last_nav_sol_.gps_fix = GPS_NO_FIX
    /\ last_nav_sol_.flags = 0
    /\ stat.level = ERROR
    /\ stat.message = "No fix"

\* the message of each fix type other than no-fix
BaseMessage(g) ==
    CASE g = GPS_DEAD_RECKONING_ONLY -> "Dead reckoning only"
      [] g = GPS_2D_FIX -> "2D fix"
      [] g = GPS_3D_FIX -> "3D fix"
      [] g = GPS_GPS_DEAD_RECKONING_COMBINED -> "GPS and dead reckoning combined"
      [] g = GPS_TIME_ONLY_FIX -> "Time fix only"

FixOkBitSet(sol) == (sol.flags \div FLAGS_GPS_FIX_OK) % 2 = 1

\* C5: for the fix types dead-reckoning-only, 2D, 3D, combined and time-only a
\* run of fixDiagnostic leaves the type's message, with ", fix not ok" appended
\* exactly when the validity bit is unset, and severity ok exactly when the
\* type is not dead-reckoning-only and the bit is set, warn otherwise.
C5_BaseMessageAndValidityBit ==
    [][ ( /\ DiagnosticRan
          /\ last_nav_sol_.gps_fix \in
               { GPS_DEAD_RECKONING_ONLY, GPS_2D_FIX, GPS_3D_FIX,
                 GPS_GPS_DEAD_RECKONING_COMBINED, GPS_TIME_ONLY_FIX } )
        => /\ stat'.message =
                 IF FixOkBitSet(last_nav_sol_)
                 THEN BaseMessage(last_nav_sol_.gps_fix)
                 ELSE BaseMessage(last_nav_sol_.gps_fix) \o ", fix not ok"
           /\ stat'.level =
                 IF /\ last_nav_sol_.gps_fix # GPS_DEAD_RECKONING_ONLY
                    /\ FixOkBitSet(last_nav_sol_)
                 THEN OK
                 ELSE WARN
           /\ ( /\ last_nav_sol_.gps_fix = GPS_3D_FIX
                /\ ~FixOkBitSet(last_nav_sol_) )
              => stat'.message = "3D fix, fix not ok" ]_vars

\* a run under a 3D fix with the validity bit unset
C5_Witness ==
    /\ statRuns = 1
    /\ last_nav_sol_.gps_fix = GPS_3D_FIX
    /\ last_nav_sol_.flags = 2
    /\ stat.level = WARN
    /\ stat.message = "3D fix, fix not ok"

(***************************************************************************)
(* Properties of the set-up (SpecConfig).                                  *)
(***************************************************************************)
\* C9: with nmea/set true, getRosParams fails whenever nmea/version is absent
\* and whenever nmea/num_sv is absent, and the set-up goes no further; with
\* nmea/set false or absent it never fails, whatever other keys are absent.
C9_MissingNmeaKeyFails ==
    phase # "constructed" =>
        /\ ( node_.bools["nmea/set"] = "true"
             /\ node_.uints["nmea/version"] = NoValue )
           => (phase = "params_error" /\ thrown = VersionMissing)
        /\ ( node_.bools["nmea/set"] = "true"
             /\ node_.uints["nmea/num_sv"] = NoValue )
           => (phase = "params_error"
               /\ thrown \in { VersionMissing, NumSvMissing })
        /\ phase = "params_error"
           => (deviceCalls = << >> /\ subscriptions = {} /\ thrown # "")
        /\ node_.bools["nmea/set"] # "true" => phase # "params_error"

\* getRosParams has failed for a missing nmea/num_sv alone
C9_Witness ==
    /\ phase = "params_error"
    /\ node_.bools["nmea/set"] = "true"
    /\ node_.uints["nmea/version"] # NoValue
    /\ node_.uints["nmea/num_sv"] = NoValue
    /\ thrown = NumSvMissing

\* configureUblox has run
Configured == phase \in { "configured", "configure_error", "subscribed" }

\* C10: configureUblox sends no GNSS configuration request, always writes the
\* warning, calls the device with the NMEA settings exactly when nmea/set is
\* true, and returns success whenever NMEA is not requested or the device
\* accepts the settings.
C10_ConfigureWarnsAndSkipsGnss ==
    /\ ~Configured => (deviceCalls = << >> /\ rosLog = << >>)
    /\ Configured =>
        /\ \A i \in DOMAIN deviceCalls :
             /\ deviceCalls[i].request = "CfgNMEA6"
             /\ deviceCalls[i].cfg = cfg_nmea_
        /\ rosLog = << GnssWarning >>
        /\ Len(deviceCalls) = IF node_.bools["nmea/set"] = "true" THEN 1 ELSE 0
        /\ ( \/ node_.bools["nmea/set"] # "true"
             \/ deviceCalls[1].accepted )
           => (phase \in { "configured", "subscribed" } /\ thrown = "")

\* configureUblox has returned success after the device accepted the settings
C10_Witness ==
    /\ phase = "configured"
    /\ node_.bools["nmea/set"] = "true"
    /\ Len(deviceCalls) = 1
    /\ deviceCalls[1].accepted
    /\ deviceCalls[1].cfg.filter = 63
    /\ rosLog = << GnssWarning >>

\* C11: when NMEA emission is requested and the device rejects the settings,
\* configureUblox ends in the error "Failed to configure NMEA": it does not
\* return success, and the device was called once.
C11_RejectedNmeaIsHardError ==
    ( /\ node_.bools["nmea/set"] = "true"
      /\ \E i \in DOMAIN deviceCalls : ~deviceCalls[i].accepted )
    => /\ phase = "configure_error"
       /\ thrown = NmeaFailed
       /\ Len(deviceCalls) = 1

\* the device has rejected NMEA settings that carry a version and flags
C11_Witness ==
    /\ phase = "configure_error"
    /\ thrown = NmeaFailed
    /\ Len(deviceCalls) = 1
    /\ ~deviceCalls[1].accepted
    /\ deviceCalls[1].cfg.version = 35
    /\ deviceCalls[1].cfg.flags = 3

\* C12: after subscribe, handlers for position, velocity and solution quality
\* are registered whatever the raw publication flags are, a handler for
\* satellite info exactly when publish/nav/svinfo is true and a handler for
\* the hardware monitor exactly when publish/mon/hw is true; nothing is
\* registered before subscribe.
C12_SubscribeRegistrations ==
    /\ phase # "subscribed" => subscriptions = {}
    /\ phase = "subscribed" =>
        /\ Subscribed("NavPOSLLH")
        /\ Subscribed("NavVELNED")
        /\ Subscribed("NavSOL")
        /\ Subscribed("NavSVINFO") <=> node_.bools["publish/nav/svinfo"] = "true"
        /\ Subscribed("MonHW6") <=> node_.bools["publish/mon/hw"] = "true"
        /\ \A sub \in subscriptions :
             sub.kind \in { "NavPOSLLH", "NavVELNED", "NavSOL", "NavSVINFO",
                            "MonHW6" }

\* subscribed with the raw position flag false, satellite info on and the
\* hardware monitor off
C12_Witness ==
    /\ phase = "subscribed"
    /\ node_.bools["publish/nav/posllh"] = "false"
    /\ node_.bools["publish/nav/svinfo"] = "true"
    /\ node_.bools["publish/mon/hw"] = "false"
    /\ Subscribed("NavPOSLLH")
    /\ Subscribed("NavSVINFO")
    /\ ~Subscribed("MonHW6")

(***************************************************************************)
(* Further properties of fixDiagnostic (SpecDiag).                         *)
(***************************************************************************)
\* the wrapper is as one run of fixDiagnostic under the present latest
\* samples leaves it
RanOnLatest ==
    /\ statRuns >= 1
    /\ \E s0 \in PriorStatus :
         stat = FixDiagnosticOf(s0, last_nav_sol_, last_nav_pos_)

\* C13, as claimed: a second run of fixDiagnostic on the same wrapper, no
\* handler having run since the first, leaves the severity and the message
\* of the first run, for every fix type (unrecognised ones included) and
\* either value of the validity bit, and changes none of the latest position,
\* latest velocity, latest quality, last fix and last velocity.
C13_SecondRunSameReport ==
    [][ (DiagnosticRan /\ RanOnLatest)
            => /\ stat'.level = stat.level
               /\ stat'.message = stat.message
               /\ UNCHANGED << last_nav_pos_, last_nav_vel_, last_nav_sol_,
                               fix_, velocity_ >> ]_vars

(***************************************************************************)
(* Further properties of the handlers run one at a time (Spec).            *)
(***************************************************************************)
\* C15: between handler runs, whenever the latest position sample and the
\* latest velocity sample carry the same epoch token, the retained fix and
\* the retained velocity carry the same timestamp; the initial state included.
C15_SameEpochSameStamp ==
    last_nav_pos_.i_tow = last_nav_vel_.i_tow
        => fix_.stamp = velocity_.stamp

\* a position and a velocity sample of the same epoch were delivered, at
\* different times, and their retained messages share an assigned stamp
C15_Witness ==
    /\ last_nav_pos_ \in PosSamples
    /\ last_nav_vel_ \in VelSamples
    /\ last_nav_pos_.i_tow = last_nav_vel_.i_tow
    /\ fix_.stamp = velocity_.stamp
    /\ fix_.stamp # UnsetStamp
    /\ fix_.stamp < now
    /\ Len(fixLog) >= 1
    /\ Len(velLog) >= 1
    /\ ~Last(velLog).fresh

\* the raw pass-through output of a handler run: the sample when the flag of
\* its kind is true, nothing otherwise
RawCopy(key, m) == IF node_.bools[key] = "true" THEN << m >> ELSE << >>

\* C16: every delivered position sample makes the handler publish exactly one
\* fix (the retained one) and every delivered velocity sample exactly one
\* velocity, whatever the sample's fields, the raw pass-through flags, the
\* navigation status and the diagnostic severity are; the raw copy of a
\* position, velocity or solution-quality sample is published exactly when
\* the flag of its kind is true.
C16_OneEmissionPerSample ==
    [][ /\ delivered'.pos = delivered.pos + 1
            => /\ pubs'["fix"] = << fix_' >>
               /\ pubs'["navposllh"] =
                    RawCopy("publish/nav/posllh", last_nav_pos_')
        /\ delivered'.vel = delivered.vel + 1
            => /\ pubs'["fix_velocity"] = << velocity_' >>
               /\ pubs'["navvelned"] =
                    RawCopy("publish/nav/velned", last_nav_vel_')
        /\ delivered'.sol = delivered.sol + 1
            => pubs'["navsol"] = RawCopy("publish/nav/sol", last_nav_sol_')
      ]_vars

\* a fix published with status no-fix while the diagnostic reports an error,
\* the raw position not being passed through
C16_Witness ==
    /\ node_.bools["publish/nav/posllh"] = "false"
    /\ last_nav_sol_ \in FixOkSolSamples
    /\ last_nav_sol_.gps_fix = GPS_NO_FIX
    /\ Len(pubs["fix"]) = 1
    /\ pubs["fix"][1].status = STATUS_NO_FIX
    /\ pubs["navposllh"] = << >>
    /\ Len(pubs["diagnostics"]) = 1
    /\ pubs["diagnostics"][1].level = ERROR
    /\ Len(fixLog) >= 2

\* C18: a position sample whose epoch token equals that of the latest
\* velocity sample is published with the stamp of the retained velocity,
\* however long ago that stamp was assigned and whatever position samples
\* were delivered since; the handler refreshes neither the retained velocity
\* nor the latest velocity sample.
C18_NoStalenessBound ==
    [][ (delivered'.pos = delivered.pos + 1
         /\ last_nav_pos_'.i_tow = last_nav_vel_.i_tow)
            => /\ pubs'["fix"][1].stamp = velocity_.stamp
               /\ fix_'.stamp = velocity_.stamp
               /\ UNCHANGED << velocity_, last_nav_vel_ >> ]_vars

\* a velocity was stamped at time 1; at time 2 a position sample of another
\* epoch got a fresh stamp, and after it a position sample of the velocity's
\* epoch was published with the old stamp
C18_Witness ==
    /\ Len(velLog) = 1
    /\ Len(fixLog) = 2
    /\ now = 2
    /\ velLog[1].stamp = 1
    /\ fixLog[1].fresh
    /\ fixLog[1].stamp = 2
    /\ ~fixLog[2].fresh
    /\ fixLog[2].i_tow = velLog[1].i_tow
    /\ fixLog[2].stamp = 1
    /\ fix_.stamp < now

(***************************************************************************)
(* SpecFrame: the handlers run one at a time while a caller polls          *)
(* fixDiagnostic.                                                          *)
(***************************************************************************)
InitFrame ==
    /\ node_ = [NoParams EXCEPT !.bools["publish/nav/sol"] = "true",
                                !.bools["publish/nav/posllh"] = "true"]
    /\ InitSubscribed

\* the position handler, for the samples of one payload
FramePosition ==
    /\ callbackNavPosLlh
    /\ last_nav_pos_' \in RacePosSamples

\* the velocity handler, for the samples of one payload
FrameVelocity ==
    /\ callbackNavVelNed
    /\ last_nav_vel_' \in RaceVelSamples

NextFrame ==
    \/ FramePosition
    \/ FrameVelocity
    \/ callbackNavSol(ConcSolSamples)
    \/ fixDiagnostic

SpecFrame == InitFrame /\ [][NextFrame]_vars

PositionRan == delivered'.pos = delivered.pos + 1

VelocityRan == delivered'.vel = delivered.vel + 1

QualityRan == delivered'.sol = delivered.sol + 1

\* C17: the velocity handler, the quality handler and fixDiagnostic leave the
\* retained fix (stamp, position, covariance, status) as it was; the quality
\* handler changes nothing but the latest quality sample and publishes
\* neither a fix nor a velocity.
C17_FixChangesOnlyInPositionHandler ==
    [][ /\ (VelocityRan \/ QualityRan \/ DiagnosticRan) => fix_' = fix_
        /\ ~PositionRan => fix_' = fix_
        /\ QualityRan
            => /\ UNCHANGED << last_nav_pos_, last_nav_vel_, fix_, velocity_,
                               freq_diag_, diagVars, configVars >>
               /\ pubs'["fix"] = << >>
               /\ pubs'["fix_velocity"] = << >> ]_vars

\* a 3D quality sample arrived after a fix was synthesised with status
\* no-fix; a velocity and a diagnostic run later, the fix is still no-fix
C17_Witness ==
    /\ Len(fixLog) = 1
    /\ Len(velLog) = 1
    /\ statRuns >= 1
    /\ last_nav_sol_.gps_fix = GPS_3D_FIX
    /\ fix_.status = STATUS_NO_FIX
    /\ fix_.frame_id = FrameId
    /\ fix_.altitude = Rat(12345, 1000)
    /\ stat.message = "3D fix"

\* the value a report carries under a key: that of the latest stat.add
Field(s, key) ==
    LET i == CHOOSE i \in DOMAIN s.values :
                 /\ s.values[i][1] = key
                 /\ \A j \in DOMAIN s.values : j > i => s.values[j][1] # key
    IN  s.values[i][2]

\* report s carries the fields of position sample pos and the satellite
\* count of quality sample sol
Carries(s, pos, sol) ==
    /\ Len(s.values) >= 8
    /\ Field(s, "iTOW [ms]") = RatOfInt(pos.i_tow)
    /\ Field(s, "Latitude [deg]") = Rat(pos.lat, 10000000)
    /\ Field(s, "Longitude [deg]") = Rat(pos.lon, 10000000)
    /\ RatIs(Field(s, "Altitude [m]"), pos.height, 1000)
    /\ RatIs(Field(s, "Height above MSL [m]"), pos.h_msl, 1000)
    /\ RatIs(Field(s, "Horizontal Accuracy [m]"), pos.h_acc, 1000)
    /\ RatIs(Field(s, "Vertical Accuracy [m]"), pos.v_acc, 1000)
    /\ Field(s, "# SVs used") = RatOfInt(sol.num_sv)

\* C19: every report of fixDiagnostic, whatever its severity, carries the
\* epoch, latitude, longitude, altitude, height above sea level and accuracies
\* of the latest position sample and the satellite count of the latest
\* quality sample (zeros when none was delivered); the report published by
\* the update inside the position handler carries the sample that handler
\* was called with.
C19_ReportCarriesLatestSamples ==
    [][ /\ DiagnosticRan => Carries(stat', last_nav_pos_, last_nav_sol_)
        /\ (PositionRan /\ pubs'["diagnostics"] # << >>)
            => /\ Len(pubs'["diagnostics"]) = 1
               /\ Carries(pubs'["diagnostics"][1], pubs'["navposllh"][1],
                          last_nav_sol_)
               /\ Carries(pubs'["diagnostics"][1], last_nav_pos_',
                          last_nav_sol_') ]_vars

\* the update inside the position handler reported a sample of epoch 1 that
\* followed one of epoch 0, with the satellite count of a delivered quality
\* sample
C19_Witness ==
    /\ Len(fixLog) = 2
    /\ fixLog[1].i_tow = 0
    /\ last_nav_sol_ \in ConcSolSamples
    /\ Len(pubs["diagnostics"]) = 1
    /\ Field(pubs["diagnostics"][1], "iTOW [ms]") = RatOfInt(1)
    /\ Field(pubs["diagnostics"][1], "Altitude [m]") = Rat(12345, 1000)
    /\ Field(pubs["diagnostics"][1], "# SVs used") = RatOfInt(7)
    /\ pubs["diagnostics"][1].level = ERROR

(***************************************************************************)
(* SpecQuality: position samples arrive under every solution quality.      *)
(***************************************************************************)
InitQuality ==
    /\ node_ = [NoParams EXCEPT !.bools["publish/nav/posllh"] = "true"]
    /\ InitSubscribed

NextQuality ==
    \/ FramePosition
    \/ callbackNavSol(SolSamples)

SpecQuality == InitQuality /\ [][NextQuality]_vars

\* C20: in every state, a severity of ok from fixDiagnostic (on whatever
\* wrapper) goes with a navigation status of fix for a position sample
\* arriving in that state, and a navigation status of no-fix goes with a
\* severity of warn or error; likewise for the fix and the report the
\* position handler publishes in one run.
C20_StatusAgreesWithSeverity ==
    /\ \A s \in PriorStatus :
         LET r == FixDiagnosticOf(s, last_nav_sol_, last_nav_pos_)
             status == FixOf(last_nav_pos_).status
         IN  /\ r.level = OK => status = STATUS_FIX
             /\ status = STATUS_NO_FIX => r.level \in { WARN, ERROR }
    /\ pubs["diagnostics"] # << >> =>
         LET r == pubs["diagnostics"][1]
             status == pubs["fix"][1].status
         IN  /\ r.level = OK => status = STATUS_FIX
             /\ status = STATUS_NO_FIX => r.level \in { WARN, ERROR }

\* under dead reckoning only with the validity bit set, the position handler
\* published a fix of status no-fix and a report of severity warn
C20_Witness ==
    /\ last_nav_sol_.gps_fix = GPS_DEAD_RECKONING_ONLY
    /\ last_nav_sol_.flags = FLAGS_GPS_FIX_OK
    /\ Len(pubs["fix"]) = 1
    /\ pubs["fix"][1].status = STATUS_NO_FIX
    /\ Len(pubs["diagnostics"]) = 1
    /\ pubs["diagnostics"][1].level = WARN
    /\ pubs["diagnostics"][1].message = "Dead reckoning only"

====
